---- MODULE Spec2Model ----
(***************************************************************************)
(* The visual-note pipeline of src/unnamed/part_001 (index.tsx, lines      *)
(* 311-1482) with the NoteUnit types of lines 1929-1956: the note store,   *)
(* the split / organize / design / paint handlers of the App component,    *)
(* and the helpers processLeftBrain and processHand.                       *)
(***************************************************************************)
EXTENDS Integers, Sequences, FiniteSets, TLC

\* ------------------------------------------------------------------ bounds
MaxNotes == 4          \* units one split may produce
MaxPaintRuns == 2      \* times the paint_confirmation control is clicked
MaxPaintTasks == 4     \* paintNote invocations explored, over all clicks
MaxRepaintTasks == 8   \* the same, where every external call succeeds
MaxModules == 1        \* modules in a parsed outline
MaxParts == 1          \* parts in one image response
MaxArr == 7            \* length of the array handed to chunk
MaxIds == 2            \* distinct element values in that array
MaxLeftModules == 3    \* modules in a response handed to processLeftBrain alone
MaxModuleVals == 3     \* distinct module objects in such a response
MaxParts2 == 3         \* elements of a list handed to processSplitBrain alone
MaxBodies == 2         \* distinct string bodies in such a list
MaxEditNotes == 2      \* units of a split whose structure cards are edited
MaxEditModules == 1    \* modules an outline may have for addModule to be used
MaxStore == 2          \* units of a store handed to updateNote alone
MaxLiveNotes == 2      \* units of a split when every call is known to end
MaxRightModules == 2   \* modules of an outline handed to processRightBrain alone

\* ------------------------------------------------------- program constants
maxRetries == 3
ChunkSize == 3
MinPartLength == 100

StageInput == 0
StageSplitting == 1
StageReviewSplit == 2
StageOrganizing == 3
StageReviewStructure == 4
StageDesigning == 5
StageReviewPrompt == 6
StagePainting == 7
StageDone == 8
StageBatchProcessing == 9

VARIABLES
    stage,          \* App state `stage`
    notes,          \* App state `notes`: the NoteUnit store
    chat,           \* componentType values present in chatHistory
    visualSettings, \* App state `visualSettings`
    env,            \* process.env: API_KEY, GEMINI_API_KEY, IMAGE_MODEL
    orgTasks,       \* processNoteStructure tasks of handleBatchOrganize
    designTimers,   \* pending setTimeout callbacks of designNote
    designDone,     \* pending 1000 ms setTimeout of handleBatchDesign
    paintRuns,      \* the handleBatchPaint invocations, in click order
    fn              \* the pure-function harness (chunk)

vars == <<stage, notes, chat, visualSettings, env, orgTasks, designTimers,
          designDone, paintRuns, fn>>

\* ------------------------------------------------------------------ values
NoError == "none"
NoImage == "none"
NoStructure == [kind |-> "none", title |-> "", summary_context |-> "",
                visual_theme_keywords |-> "", modules |-> <<>>]
NoPrompt == <<>>

HasStructure(n) == n.structure # NoStructure
HasPrompt(n) == n.generatedPrompt # NoPrompt
HasImage(n) == n.finalImage # NoImage
HasError(n) == n.error # NoError

Min(a, b) == IF a < b THEN a ELSE b

\* ------------------------------------------------------------ the store
\* (variant) order: i, without the + 1
NewNoteZeroBased(i, text) ==
    [id |-> i, order |-> i - 1, originalText |-> text,
     stage |-> StageOrganizing, isProcessing |-> FALSE,
     error |-> NoError, structure |-> NoStructure,
     generatedPrompt |-> NoPrompt, finalImage |-> NoImage]

\* (variant) stage: Stage.ReviewSplit, the stage the App shows at that point
NewNoteAtReviewSplit(i, text) ==
    [id |-> i, order |-> i, originalText |-> text,
     stage |-> StageReviewSplit, isProcessing |-> FALSE,
     error |-> NoError, structure |-> NoStructure,
     generatedPrompt |-> NoPrompt, finalImage |-> NoImage]

\* NoteUnit as handleSplit creates it for the i-th part (i counted from 1);
\* the optional fields start absent.
NewNote(i, text) ==
    [id |-> i, order |-> i, originalText |-> text,
     stage |-> StageOrganizing, isProcessing |-> FALSE,
     error |-> NoError, structure |-> NoStructure,
     generatedPrompt |-> NoPrompt, finalImage |-> NoImage]

\* (variant) setNotes(notes.map(...)) over the notes a render captured at the
\* split, instead of the updater form
updateNoteFromCapturedNotes(ns, id, updates) ==
    [k \in DOMAIN ns |->
        LET n == NewNote(ns[k].id, ns[k].originalText) IN
        IF n.id = id
        THEN [f \in DOMAIN n |-> IF f \in DOMAIN updates THEN updates[f] ELSE n[f]]
        ELSE n]

\* (variant) the merge also clearing error
updateNoteClearsError(ns, id, updates) ==
    [k \in DOMAIN ns |->
        IF ns[k].id = id
        THEN [f \in DOMAIN ns[k] |->
                IF f \in DOMAIN updates THEN updates[f]
                ELSE IF f = "error" THEN NoError ELSE ns[k][f]]
        ELSE ns[k]]

\* (variant) the map without its id test
updateNoteEveryUnit(ns, id, updates) ==
    [k \in DOMAIN ns |->
        [f \in DOMAIN ns[k] |->
            IF f \in DOMAIN updates THEN updates[f] ELSE ns[k][f]]]

\* setNotes(prev => prev.map(n => n.id === id ? { ...n, ...updates } : n))
updateNote(ns, id, updates) ==
    [k \in DOMAIN ns |->
        IF ns[k].id = id
        THEN [f \in DOMAIN ns[k] |->
                 IF f \in DOMAIN updates THEN updates[f] ELSE ns[k][f]]
        ELSE ns[k]]

\* checkApiKey, without an AI Studio host: some key is configured
checkApiKey == env.API_KEY \/ env.GEMINI_API_KEY

\* ------------------------------------------------------- processLeftBrain
\* What the completion call may produce: a rejection, or a text whose JSON
\* value is unparsable, a non-object, or an object whose `modules` is
\* absent, not a list, or the list `items` of module objects (each named
\* by a number).
ModuleLists(maxLen, vals) == UNION {[1..n -> 1..vals] : n \in 0..maxLen}

LeftResponsesOver(lists) ==
    {[kind |-> "error", modules |-> "absent", items |-> <<>>]}
    \cup {[kind |-> k, modules |-> "absent", items |-> <<>>] :
            k \in {"empty_text", "unparsable", "null", "number", "string", "array"}}
    \cup {[kind |-> "object", modules |-> m, items |-> <<>>] :
            m \in {"absent", "null", "number", "string", "object"}}
    \cup {[kind |-> "object", modules |-> "list", items |-> l] : l \in lists}

LeftResponses == LeftResponsesOver(ModuleLists(MaxModules, 1))

FallbackOutline ==
    [kind |-> "fallback", title |-> "parse failed",
     summary_context |-> "please retry", visual_theme_keywords |-> "abstract",
     modules |-> <<[id |-> <<"err", 1>>, src |-> 0]>>]

\* json with json.modules = json.modules.map((s, i) => ({...s, id: `m${i} `}))
ParsedOutline(items) ==
    [kind |-> "parsed", title |-> "T", summary_context |-> "S",
     visual_theme_keywords |-> "K",
     modules |-> [i \in DOMAIN items |-> [id |-> <<"m", i - 1>>, src |-> items[i]]]]

\* Does the try block of processLeftBrain throw on this response?
LeftBrainThrows(resp) ==
    \/ resp.kind = "error"                    \* generateContent rejects
    \/ resp.kind = "unparsable"               \* JSON.parse throws
    \/ resp.kind = "null"                     \* null.modules
    \/ resp.kind \in {"number", "string"}     \* no modules: "Empty modules"
    \/ resp.kind \in {"array", "empty_text"}  \* modules = []: "Empty modules"
    \/ /\ resp.kind = "object"
       /\ \/ resp.modules \in {"absent", "null"}     \* ?.map is undefined, || []
          \/ resp.modules \in {"number", "string", "object"} \* .map is not a function
          \/ resp.modules = "list" /\ resp.items = <<>>    \* "Empty modules"

\* (variant) the call awaited outside the try block
processLeftBrainRethrowsCallError(resp) ==
    IF resp.kind = "error" THEN [threw |-> TRUE, value |-> NoStructure]
    ELSE IF LeftBrainThrows(resp) THEN [threw |-> FALSE, value |-> FallbackOutline]
    ELSE [threw |-> FALSE, value |-> ParsedOutline(resp.items)]

\* (variant) without the "Empty modules" validation
processLeftBrainNoValidation(resp) ==
    IF resp.kind = "object" /\ resp.modules = "list"
    THEN [threw |-> FALSE, value |-> ParsedOutline(resp.items)]
    ELSE IF LeftBrainThrows(resp) THEN [threw |-> FALSE, value |-> FallbackOutline]
    ELSE [threw |-> FALSE, value |-> ParsedOutline(resp.items)]

\* processLeftBrain: the catch block absorbs every throw of the try block,
\* the rejection of the call included, and returns the fixed fallback outline.
\* The result carries `threw` for the caller's own try/catch.
processLeftBrain(resp) ==
    IF LeftBrainThrows(resp) THEN [threw |-> FALSE, value |-> FallbackOutline]
    ELSE [threw |-> FALSE, value |-> ParsedOutline(resp.items)]

\* ------------------------------------------------------ processSplitBrain
\* A string is its body, the length of its trimmed text and the whitespace
\* around it; a list element that is not a string has kind "other".
Str(body, len, pad) == [kind |-> "str", body |-> body, len |-> len, pad |-> pad]
NotAString == [kind |-> "other", body |-> 0, len |-> 0, pad |-> 0]

\* typeof p === 'string' && p.trim().length >= 100
IsValidPart(p) == p.kind = "str" /\ p.len >= MinPartLength

\* What the split call may produce: a rejection, an empty text (read as
\* '[]'), an unparsable text, a JSON value that is not a list, or a list.
SplitResponsesOver(lists) ==
    {[kind |-> k, items |-> <<>>] :
        k \in {"error", "empty_text", "unparsable", "nonlist"}}
    \cup {[kind |-> "list", items |-> l] : l \in lists}

\* (variant) the filter without the length test
processSplitBrainNoLengthTest(text, resp) ==
    IF resp.kind = "list" /\ Len(resp.items) > 0
    THEN LET IsString(p) == p.kind = "str"
             validParts == SelectSeq(resp.items, IsString)
         IN IF validParts = <<>> THEN <<text>> ELSE validParts
    ELSE <<text>>

\* (variant) without the `validParts.length === 0` test
processSplitBrainNoEmptyTest(text, resp) ==
    IF resp.kind \in {"error", "unparsable"} THEN <<text>>
    ELSE IF resp.kind = "list" /\ Len(resp.items) > 0
    THEN SelectSeq(resp.items, IsValidPart)
    ELSE <<text>>

processSplitBrain(text, resp) ==
    IF resp.kind \in {"error", "unparsable"} THEN <<text>>      \* catch
    ELSE IF resp.kind = "list" /\ Len(resp.items) > 0
    THEN LET validParts == SelectSeq(resp.items, IsValidPart)
         IN IF validParts = <<>> THEN <<text>> ELSE validParts
    ELSE <<text>>

\* ------------------------------------------------------ processRightBrain
STYLES == <<"healing", "tech", "retro", "zen", "clay">>

StyleOf(styleId) ==
    IF \E i \in DOMAIN STYLES : STYLES[i] = styleId THEN styleId ELSE STYLES[1]

Default(v, d) == IF v = "" THEN d ELSE v

\* (variant) the watermark also written under an empty subtitle
processRightBrainWatermarkAsSubtitle(data, settings) ==
    IF data = NoStructure THEN <<"Error: No data provided">>
    ELSE <<StyleOf(settings.styleId),
           Default(settings.colorTheme, "Pastel low-saturation colors"),
           Default(data.visual_theme_keywords, "abstract concepts"),
           Default(data.title, "untitled"),
           Default(data.summary_context, settings.watermark),
           [i \in DOMAIN data.modules |-> <<i, data.modules[i].src>>],
           settings.watermark>>

\* (variant) the fields interpolated as they are
processRightBrainNoDefaults(data, settings) ==
    IF data = NoStructure THEN <<"Error: No data provided">>
    ELSE <<StyleOf(settings.styleId),
           Default(settings.colorTheme, "Pastel low-saturation colors"),
           data.visual_theme_keywords,
           data.title,
           data.summary_context,
           [i \in DOMAIN data.modules |-> <<i, data.modules[i].src>>],
           settings.watermark>>

\* The instruction string, as the sequence of its variable clauses.
processRightBrain(data, settings) ==
    IF data = NoStructure THEN <<"Error: No data provided">>
    ELSE <<StyleOf(settings.styleId),
           Default(settings.colorTheme, "Pastel low-saturation colors"),
           Default(data.visual_theme_keywords, "abstract concepts"),
           Default(data.title, "untitled"),
           data.summary_context,
           [i \in DOMAIN data.modules |-> <<i, data.modules[i].src>>],
           settings.watermark>>

\* ------------------------------------------------------------ processHand
\* The model ids an environment may configure; "" is IMAGE_MODEL unset.
ModelIds ==
    {"", "gemini", "imagen", "Gemini-3-Pro-Image", "GEMINI-FLASH-IMAGE",
     "imagen-4.0-generate", "Imagen-Gem"}

\* process.env.IMAGE_MODEL || 'gemini-3-pro-image-preview'
IMAGE_MODEL ==
    IF env.IMAGE_MODEL = "" THEN "gemini-3-pro-image-preview" ELSE env.IMAGE_MODEL

\* String.prototype.toLowerCase on the ids above
toLowerCase(id) ==
    CASE id = "Gemini-3-Pro-Image" -> "gemini-3-pro-image"
      [] id = "GEMINI-FLASH-IMAGE" -> "gemini-flash-image"
      [] id = "Imagen-Gem" -> "imagen-gem"
      [] OTHER -> id

\* id.includes('gemini'), a case-sensitive substring test
includesGemini(id) ==
    id \in {"gemini", "gemini-3-pro-image-preview", "gemini-3-pro-image",
            "gemini-flash-image"}

\* (variant) the test without toLowerCase
IsGeminiCaseSensitive == includesGemini(IMAGE_MODEL)

\* IMAGE_MODEL.toLowerCase().includes('gemini')
IsGemini == includesGemini(toLowerCase(IMAGE_MODEL))

\* The branch an attempt takes: generateContent with extractInlineImage, or
\* fetchImagen with predictions[0].
Backend == IF IsGemini THEN "inline" ELSE "predict"

\* What one attempt's external call may produce: a rejection, an HTTP error
\* status, or a response whose parts / predictions carry image data or not.
PartLists == UNION {[1..n -> BOOLEAN] : n \in 0..MaxParts}
ImageResponses ==
    {[kind |-> k, parts |-> <<>>] : k \in {"error", "http_error"}}
    \cup {[kind |-> "response", parts |-> p] : p \in PartLists}

\* extractInlineImage: the first part with inlineData.data, if any
extractInlineImage(resp) == \E i \in DOMAIN resp.parts : resp.parts[i]

\* fetchImagen after the fetch: predictions[0] must carry data
ImagenHasData(resp) == Len(resp.parts) > 0 /\ resp.parts[1]

\* (variant) fetchImagen without its `if (!data) throw`
AttemptErrorNoDataCheck(resp) ==
    IF resp.kind = "error" THEN "transport"
    ELSE IF IsGemini
    THEN IF resp.kind = "http_error" THEN "transport"
         ELSE IF extractInlineImage(resp) THEN "none" ELSE "no_inline_image"
    ELSE IF resp.kind = "http_error" THEN "imagen_http" ELSE "none"

\* The error the try block of one attempt throws on resp, or "none".
AttemptError(resp) ==
    IF resp.kind = "error" THEN "transport"
    ELSE IF IsGemini
    THEN IF resp.kind = "http_error" THEN "transport"
         ELSE IF extractInlineImage(resp) THEN "none" ELSE "no_inline_image"
    ELSE IF resp.kind = "http_error" THEN "imagen_http"
         ELSE IF ImagenHasData(resp) THEN "none" ELSE "imagen_missing_data"

IdleTask ==
    [pc |-> "idle", i |-> 0, attempts |-> 0, waits |-> <<>>,
     lastError |-> 0, thrown |-> 0]

\* catch (e) { lastError = e; await setTimeout(1000 * (i + 1)) }: lastError
\* holds the error of attempt i + 1, and a wait of i + 1 seconds begins
AttemptFailed(t) ==
    [t EXCEPT !.pc = "backoff",
              !.lastError = t.i + 1,
              !.waits = Append(@, t.i + 1)]

\* The try block of loop iteration i up to its first await: the gemini
\* backend awaits generateContent; fetchImagen throws before any fetch
\* when process.env.API_KEY is missing.
BeginAttempt(t, i) ==
    LET t1 == [t EXCEPT !.i = i, !.attempts = @ + 1] IN
    IF ~IsGemini /\ ~env.API_KEY
    THEN AttemptFailed(t1)
    ELSE [t1 EXCEPT !.pc = "call"]

\* The external call of the attempt completes with resp.
AttemptResponse(t, resp) ==
    IF AttemptError(resp) = "none"
    THEN [t EXCEPT !.pc = "returned"]
    ELSE AttemptFailed(t)

\* (variant) the loop test written i <= maxRetries
BackoffElapsedOffByOne(t) ==
    IF t.i + 1 <= maxRetries
    THEN BeginAttempt(t, t.i + 1)
    ELSE [t EXCEPT !.pc = "threw", !.thrown = t.lastError]

\* The backoff timer fires: i++, then the loop test i < maxRetries.
BackoffElapsed(t) ==
    IF t.i + 1 < maxRetries
    THEN BeginAttempt(t, t.i + 1)
    ELSE [t EXCEPT !.pc = "threw", !.thrown = t.lastError]

\* ------------------------------------------------------- handleBatchPaint
Ceil(a, b) == (a + b - 1) \div b

\* (variant) Math.floor in place of Math.ceil
chunkFloor(arr, size) ==
    [i \in 1..(Len(arr) \div size) |->
        SubSeq(arr, (i - 1) * size + 1, Min((i - 1) * size + size, Len(arr)))]

\* chunk(arr, size): Array.from({length: ceil(len/size)}, (v, i) =>
\*   arr.slice(i * size, i * size + size)), with i from 0
chunk(arr, size) ==
    [i \in 1..Ceil(Len(arr), size) |->
        SubSeq(arr, (i - 1) * size + 1, Min((i - 1) * size + size, Len(arr)))]

Settled(t) == t.pc \in {"skipped", "painted", "failed"}

Chunks(run) == chunk(run.snap, ChunkSize)

AllSettled(run, c) == \A j \in DOMAIN c : Settled(run.task[c[j].id])

\* c.map(n => paintNote(n)), each paintNote up to its first await
RECURSIVE StartPaintNotes(_, _, _)
\* (variant) paintNote without `if (!note.generatedPrompt) return`
StartPaintNotesNoPromptTest(ns, tasks, c) ==
    IF c = <<>> THEN [notes |-> ns, task |-> tasks]
    ELSE StartPaintNotes(updateNote(ns, Head(c).id, [isProcessing |-> TRUE]),
                         [tasks EXCEPT ![Head(c).id] = BeginAttempt(@, 0)],
                         Tail(c))

StartPaintNotes(ns, tasks, c) ==
    IF c = <<>> THEN [notes |-> ns, task |-> tasks]
    ELSE LET n == Head(c) IN
         IF ~HasPrompt(n)
         THEN StartPaintNotes(ns, [tasks EXCEPT ![n.id].pc = "skipped"], Tail(c))
         ELSE StartPaintNotes(updateNote(ns, n.id, [isProcessing |-> TRUE]),
                              [tasks EXCEPT ![n.id] = BeginAttempt(@, 0)],
                              Tail(c))

\* for (const c of chunks) { await Promise.all(c.map(...)) }: enter chunk
\* run.ci; a chunk whose paintNotes all returned at once is passed through.
RECURSIVE EnterChunk(_, _)
\* (variant) the loop does not await the chunk before entering the next
EnterChunkNoBarrier(ns, run) ==
    IF run.ci > Len(Chunks(run)) THEN [notes |-> ns, run |-> run]
    ELSE LET c == Chunks(run)[run.ci]
             s == StartPaintNotes(ns, run.task, c)
             run2 == [run EXCEPT !.task = s.task]
         IN EnterChunk(s.notes, [run2 EXCEPT !.ci = @ + 1])

EnterChunk(ns, run) ==
    IF run.ci > Len(Chunks(run)) THEN [notes |-> ns, run |-> run]
    ELSE LET c == Chunks(run)[run.ci]
             s == StartPaintNotes(ns, run.task, c)
             run2 == [run EXCEPT !.task = s.task]
         IN IF AllSettled(run2, c)
            THEN EnterChunk(s.notes, [run2 EXCEPT !.ci = @ + 1])
            ELSE [notes |-> s.notes, run |-> run2]

\* the for loop has run past its last chunk
RunFinished(run) == run.ci > Len(Chunks(run))

\* (variant) a failed paintNote rejects Promise.all and ends the loop
AfterSettleAbortsOnFailure(ns, run) ==
    IF \E k \in DOMAIN run.task : run.task[k].pc = "failed"
    THEN [notes |-> ns, run |-> [run EXCEPT !.ci = Len(Chunks(run)) + 1]]
    ELSE IF ~RunFinished(run) /\ AllSettled(run, Chunks(run)[run.ci])
    THEN EnterChunk(ns, [run EXCEPT !.ci = @ + 1])
    ELSE [notes |-> ns, run |-> run]

\* Promise.all of the current chunk resolves once every paintNote settled.
AfterSettle(ns, run) ==
    IF ~RunFinished(run) /\ AllSettled(run, Chunks(run)[run.ci])
    THEN EnterChunk(ns, [run EXCEPT !.ci = @ + 1])
    ELSE [notes |-> ns, run |-> run]


\* the tail of handleBatchPaint, once the chunk loop is over
PaintTail(run) ==
    IF RunFinished(run)
    THEN /\ chat' = (chat \ {"batch_progress"}) \cup {"final_result"}
         /\ stage' = StageDone
    ELSE UNCHANGED <<chat, stage>>

\* ------------------------------------------------------------------ Init
\* process.env: no key, API_KEY, or only another of the keys checkApiKey
\* and getAI accept (GEMINI_API_KEY stands for them); IMAGE_MODEL contains
\* 'gemini' or not
Envs == {e \in [API_KEY : BOOLEAN, GEMINI_API_KEY : BOOLEAN,
                IMAGE_MODEL : {"gemini", "imagen"}] :
            ~(e.API_KEY /\ e.GEMINI_API_KEY)}

FnOff == [pc |-> "off", arr |-> <<>>, out |-> <<>>]

InitApp ==
    /\ stage = StageInput
    /\ notes = <<>>
    /\ chat = {"input_form"}
    /\ visualSettings = [styleId |-> "healing", colorTheme |-> "", watermark |-> ""]
    /\ orgTasks = <<>>
    /\ designTimers = {}
    /\ designDone = FALSE
    /\ paintRuns = <<>>

Init ==
    /\ InitApp
    /\ env \in Envs
    /\ fn = FnOff

\* ------------------------------------------------------------- handleSplit
\* The click on the submit button, up to the await of processSplitBrain.
handleSplit ==
    /\ stage = StageInput
    /\ IF checkApiKey
       THEN stage' = StageSplitting
       ELSE UNCHANGED stage
    /\ UNCHANGED <<notes, chat, visualSettings, env, orgTasks, designTimers,
                   designDone, paintRuns, fn>>

\* The text typed into the input box, and what the split call may answer:
\* a rejection, or a list of n usable segments.
AppInputText == Str(0, MinPartLength, 0)
AppSplitResponses ==
    {[kind |-> "error", items |-> <<>>]}
    \cup {[kind |-> "list", items |-> [i \in 1..n |-> Str(i, MinPartLength, 0)]] :
            n \in 1..MaxNotes}

\* processSplitBrain resolved: one NoteUnit per part, order = position + 1.
SplitResponse(resp) ==
    /\ stage = StageSplitting
    /\ LET parts == processSplitBrain(AppInputText, resp)
       IN notes' = [i \in DOMAIN parts |-> NewNote(i, parts[i])]
    /\ chat' = chat \cup {"split_review"}
    /\ stage' = StageReviewSplit
    /\ UNCHANGED <<visualSettings, env, orgTasks, designTimers, designDone,
                   paintRuns, fn>>

\* ------------------------------------------- handleConfirmSplit / organize
\* processNoteStructure up to its await: updateNote(id, {isProcessing: true})
RECURSIVE StartStructure(_, _)
StartStructure(ns, todo) ==
    IF todo = <<>> THEN ns
    ELSE StartStructure(updateNote(ns, Head(todo).id, [isProcessing |-> TRUE]),
                        Tail(todo))

\* (variant) the success update without its stage
processNoteStructureKeepsStage(ns, id, r) ==
    IF ~r.threw
    THEN updateNote(ns, id, [structure |-> r.value, isProcessing |-> FALSE])
    ELSE updateNote(ns, id, [isProcessing |-> FALSE,
                             error |-> "structure failed"])

\* processNoteStructure after its await, given processLeftBrain's result
processNoteStructure(ns, id, r) ==
    IF ~r.threw
    THEN updateNote(ns, id, [structure |-> r.value,
                             stage |-> StageReviewStructure,
                             isProcessing |-> FALSE])
    ELSE updateNote(ns, id, [isProcessing |-> FALSE,
                             error |-> "structure failed"])

\* (variant) Promise.race in place of Promise.all
OrgAnySettled(ts) == \E k \in DOMAIN ts : ts[k] # "call"

\* A task is "call" while its completion call is outstanding, then "ok" or
\* "rejected" as the call ended; "done" once Promise.all has resolved.
OrgAllSettled(ts) == \A k \in DOMAIN ts : ts[k] # "call"

\* the click on the split_review control: handleConfirmSplit, which calls
\* handleBatchOrganize up to its await Promise.all
handleConfirmSplit ==
    /\ "split_review" \in chat
    /\ chat' = chat \ {"split_review"}
    /\ stage' = StageBatchProcessing
    /\ notes' = StartStructure(notes, notes)
    /\ orgTasks' = [k \in DOMAIN notes |-> "call"]
    /\ UNCHANGED <<visualSettings, env, designTimers, designDone, paintRuns, fn>>

\* the completion call of unit k completes with resp; when it is the last
\* one, Promise.all resolves and handleBatchOrganize runs to its end
OrganizeResponse(k, resp) ==
    /\ k \in DOMAIN orgTasks
    /\ orgTasks[k] = "call"
    /\ notes' = processNoteStructure(notes, notes[k].id, processLeftBrain(resp))
    /\ LET ts == [orgTasks EXCEPT ![k] = IF resp.kind = "error" THEN "rejected"
                                          ELSE "ok"]
       IN IF OrgAllSettled(ts)
          THEN /\ orgTasks' = [j \in DOMAIN ts |-> "done"]
               /\ chat' = chat \cup {"style_select"}
               /\ stage' = StageReviewStructure
          ELSE /\ orgTasks' = ts
               /\ UNCHANGED <<chat, stage>>
    /\ UNCHANGED <<visualSettings, env, designTimers, designDone, paintRuns, fn>>

\* --------------------------------------------------------- handleBatchDesign
\* designNote up to its setTimeout, over the notes of the click's render
RECURSIVE StartDesign(_, _)
StartDesign(ns, todo) ==
    IF todo = <<>> THEN ns
    ELSE IF ~HasStructure(Head(todo)) THEN StartDesign(ns, Tail(todo))
    ELSE StartDesign(updateNote(ns, Head(todo).id, [isProcessing |-> TRUE]),
                     Tail(todo))

\* the click on "confirm style": handleStyleConfirm -> handleBatchDesign
handleBatchDesign ==
    /\ "style_select" \in chat
    /\ chat' = chat \ {"style_select"}
    /\ stage' = StageDesigning
    /\ notes' = StartDesign(notes, notes)
    /\ designTimers' = {[id |-> notes[k].id, structure |-> notes[k].structure,
                         settings |-> visualSettings] :
                           k \in {j \in DOMAIN notes : HasStructure(notes[j])}}
    /\ designDone' = TRUE
    /\ UNCHANGED <<visualSettings, env, orgTasks, paintRuns, fn>>

\* the setTimeout callback of designNote (800..1300 ms)
DesignTimer(t) ==
    /\ t \in designTimers
    /\ notes' = updateNote(notes, t.id,
                    [generatedPrompt |-> processRightBrain(t.structure, t.settings),
                     stage |-> StageReviewPrompt,
                     isProcessing |-> FALSE])
    /\ designTimers' = designTimers \ {t}
    /\ UNCHANGED <<stage, chat, visualSettings, env, orgTasks, designDone,
                   paintRuns, fn>>

\* the 1000 ms setTimeout callback of handleBatchDesign
DesignDoneTimer ==
    /\ designDone
    /\ designDone' = FALSE
    /\ chat' = chat \cup {"paint_confirmation"}
    /\ stage' = StageReviewPrompt
    /\ UNCHANGED <<notes, visualSettings, env, orgTasks, designTimers,
                   paintRuns, fn>>

\* ---------------------------------------------------------- handleBatchPaint
\* paintNote after processHand returned the data URI
paintNoteSuccess(ns, id) ==
    updateNote(ns, id, [finalImage |-> "data:image", stage |-> StageDone,
                        isProcessing |-> FALSE])

\* (variant) the catch block written as a copy of the success update
paintNoteFailureMarksDone(ns, id) ==
    updateNote(ns, id, [isProcessing |-> FALSE, error |-> "paint failed",
                        stage |-> StageDone])

\* (variant) the catch block handing the unit back for another request
paintNoteFailureBackToReview(ns, id) ==
    updateNote(ns, id, [isProcessing |-> FALSE, error |-> "paint failed",
                        stage |-> StageReviewPrompt])

\* (variant) the catch block recording the error only
paintNoteFailureLeavesProcessing(ns, id) ==
    updateNote(ns, id, [error |-> "paint failed"])

\* paintNote's catch block
paintNoteFailure(ns, id) ==
    updateNote(ns, id, [isProcessing |-> FALSE, error |-> "paint failed"])

\* `notes` as the click's render captured it: paintNote reads id and
\* generatedPrompt of it
NewRun(ns) ==
    [snap |-> [k \in DOMAIN ns |->
                 [id |-> ns[k].id, generatedPrompt |-> ns[k].generatedPrompt]],
     ci |-> 1,
     task |-> [k \in DOMAIN ns |-> IdleTask]]

PaintTasksSoFar == Len(paintRuns) * Len(notes)

\* the click on the paint_confirmation control, up to the first await of the
\* chunk loop
PaintClick(maxTasks) ==
    /\ "paint_confirmation" \in chat
    /\ Len(paintRuns) < MaxPaintRuns
    /\ PaintTasksSoFar + Len(notes) <= maxTasks
    /\ IF ~checkApiKey
       THEN UNCHANGED <<stage, notes, chat, paintRuns>>
       ELSE LET s == EnterChunk(notes, NewRun(notes)) IN
            /\ notes' = s.notes
            /\ paintRuns' = Append(paintRuns, s.run)
            /\ IF RunFinished(s.run)
               THEN /\ chat' = chat \cup {"final_result"}
                    /\ stage' = StageDone
               ELSE /\ chat' = chat \cup {"batch_progress"}
                    /\ stage' = StagePainting
    /\ UNCHANGED <<visualSettings, env, orgTasks, designTimers, designDone, fn>>

handleBatchPaint == PaintClick(MaxPaintTasks)

\* one paintNote of run r settles: its store update, then the rest of the
\* chunk loop as far as it runs without awaiting
SettleTask(r, k, t) ==
    LET ns1 == IF t.pc = "returned"
               THEN paintNoteSuccess(notes, k)
               ELSE paintNoteFailure(notes, k)
        \* a returned invocation leaves its result; a thrown one the error
        \* it threw, with the attempts and waits that led to it
        t1 == IF t.pc = "returned" THEN [IdleTask EXCEPT !.pc = "painted"]
              ELSE [t EXCEPT !.pc = "failed"]
        s == AfterSettle(ns1, [paintRuns[r] EXCEPT !.task[k] = t1])
    IN /\ notes' = s.notes
       /\ paintRuns' = [paintRuns EXCEPT ![r] = s.run]
       /\ PaintTail(s.run)

\* the external call of an attempt of unit k in run r completes with resp
PaintResponse(r, k, resp) ==
    /\ r \in DOMAIN paintRuns
    /\ k \in DOMAIN paintRuns[r].task
    /\ paintRuns[r].task[k].pc = "call"
    /\ LET t == AttemptResponse(paintRuns[r].task[k], resp) IN
       IF t.pc = "returned"
       THEN SettleTask(r, k, t)
       ELSE /\ paintRuns' = [paintRuns EXCEPT ![r].task[k] = t]
            /\ UNCHANGED <<notes, chat, stage>>
    /\ UNCHANGED <<visualSettings, env, orgTasks, designTimers, designDone, fn>>

\* the backoff timer of unit k in run r fires
BackoffTimer(r, k) ==
    /\ r \in DOMAIN paintRuns
    /\ k \in DOMAIN paintRuns[r].task
    /\ paintRuns[r].task[k].pc = "backoff"
    /\ LET t == BackoffElapsed(paintRuns[r].task[k]) IN
       IF t.pc = "threw"
       THEN SettleTask(r, k, t)
       ELSE /\ paintRuns' = [paintRuns EXCEPT ![r].task[k] = t]
            /\ UNCHANGED <<notes, chat, stage>>
    /\ UNCHANGED <<visualSettings, env, orgTasks, designTimers, designDone, fn>>

\* ------------------------------------------------------------------ Next
Next ==
    \/ handleSplit
    \/ \E resp \in AppSplitResponses : SplitResponse(resp)
    \/ handleConfirmSplit
    \/ \E k \in 1..MaxNotes, resp \in LeftResponses : OrganizeResponse(k, resp)
    \/ handleBatchDesign
    \/ \E t \in designTimers : DesignTimer(t)
    \/ DesignDoneTimer
    \/ handleBatchPaint
    \/ \E r \in 1..MaxPaintRuns, k \in 1..MaxNotes, resp \in ImageResponses :
          PaintResponse(r, k, resp)
    \/ \E r \in 1..MaxPaintRuns, k \in 1..MaxNotes : BackoffTimer(r, k)

Spec == Init /\ [][Next]_vars

\* --------------------------------- every call returns and every timer fires
\* The steps that are not the user's: a completion or image call completing
\* (with a result or a failure) and a setTimeout callback running; on splits
\* of up to MaxLiveNotes units.
Async ==
    \/ \E resp \in {r \in AppSplitResponses : Len(r.items) <= MaxLiveNotes} :
          SplitResponse(resp)
    \/ \E k \in 1..MaxLiveNotes, resp \in LeftResponses : OrganizeResponse(k, resp)
    \/ \E t \in designTimers : DesignTimer(t)
    \/ DesignDoneTimer
    \/ \E r \in 1..MaxPaintRuns, k \in 1..MaxLiveNotes, resp \in ImageResponses :
          PaintResponse(r, k, resp)
    \/ \E r \in 1..MaxPaintRuns, k \in 1..MaxLiveNotes : BackoffTimer(r, k)

NextFair ==
    \/ handleSplit
    \/ handleConfirmSplit
    \/ handleBatchDesign
    \/ handleBatchPaint
    \/ Async

SpecFair == Init /\ [][NextFair]_vars /\ WF_vars(Async)

\* ------------------------------------------ every external call succeeds
\* The same handlers where each completion call returns a valid outline and
\* each image call returns an image, so that larger batches and repeated
\* clicks on the paint_confirmation control can be explored.
GoodLeftResponse == [kind |-> "object", modules |-> "list", items |-> <<1>>]
GoodImageResponse == [kind |-> "response", parts |-> <<TRUE>>]

handleBatchPaintAgain == PaintClick(MaxRepaintTasks)

InitRepaint ==
    /\ InitApp
    /\ env = [API_KEY |-> TRUE, GEMINI_API_KEY |-> FALSE, IMAGE_MODEL |-> "gemini"]
    /\ fn = FnOff

NextRepaint ==
    \/ handleSplit
    \/ \E resp \in AppSplitResponses : SplitResponse(resp)
    \/ handleConfirmSplit
    \/ \E k \in 1..MaxNotes : OrganizeResponse(k, GoodLeftResponse)
    \/ handleBatchDesign
    \/ \E t \in designTimers : DesignTimer(t)
    \/ DesignDoneTimer
    \/ handleBatchPaintAgain
    \/ \E r \in 1..MaxPaintRuns, k \in 1..MaxNotes :
          PaintResponse(r, k, GoodImageResponse)

SpecRepaint == InitRepaint /\ [][NextRepaint]_vars

\* ------------------------------------------------------- chunk, on its own
Arrs == UNION {[1..n -> 1..MaxIds] : n \in 0..MaxArr}

InitChunk ==
    /\ InitApp
    /\ env = [API_KEY |-> TRUE, GEMINI_API_KEY |-> FALSE, IMAGE_MODEL |-> "gemini"]
    /\ fn \in {[pc |-> "in", arr |-> a, out |-> <<>>] : a \in Arrs}

\* const chunks = chunk(notes, 3)
ChunkApply ==
    /\ fn.pc = "in"
    /\ fn' = [fn EXCEPT !.pc = "out", !.out = chunk(fn.arr, ChunkSize)]
    /\ UNCHANGED <<stage, notes, chat, visualSettings, env, orgTasks,
                   designTimers, designDone, paintRuns>>

SpecChunk == InitChunk /\ [][ChunkApply]_vars

\* ------------------------------------------- the structure card's editor
\* BlockEditor is rendered for a unit that has a structure, read-only once
\* note.stage >= Stage.ReviewPrompt.
\* The split card's textarea (onChange -> onEdit('originalText', value)) is
\* disabled by locked = note.stage > Stage.ReviewSplit.
SplitTextEditable(n) == n.stage <= StageReviewSplit

\* (variant) readOnly never set
StructureEditableNoLock(n) == HasStructure(n)

StructureEditable(n) == HasStructure(n) /\ n.stage < StageReviewPrompt

\* onChange({...structure, title: value}) -> updateNote(id, {structure})
handleTitleChange(k, value) ==
    /\ k \in DOMAIN notes
    /\ StructureEditable(notes[k])
    /\ notes' = updateNote(notes, notes[k].id,
                    [structure |-> [notes[k].structure EXCEPT !.title = value]])
    /\ UNCHANGED <<stage, chat, visualSettings, env, orgTasks, designTimers,
                   designDone, paintRuns, fn>>

\* onChange({...structure, summary_context: value})
handleSummaryChange(k, value) ==
    /\ k \in DOMAIN notes
    /\ StructureEditable(notes[k])
    /\ notes' = updateNote(notes, notes[k].id,
                    [structure |-> [notes[k].structure EXCEPT
                                      !.summary_context = value]])
    /\ UNCHANGED <<stage, chat, visualSettings, env, orgTasks, designTimers,
                   designDone, paintRuns, fn>>

\* newModules[index] = {...newModules[index], [field]: value}; a module's
\* heading and content are its `src`, the entered text a number
handleModuleChange(k, index, value) ==
    /\ k \in DOMAIN notes
    /\ StructureEditable(notes[k])
    /\ index \in DOMAIN notes[k].structure.modules
    /\ notes' = updateNote(notes, notes[k].id,
                    [structure |-> [notes[k].structure EXCEPT
                                      !.modules[index].src = value]])
    /\ UNCHANGED <<stage, chat, visualSettings, env, orgTasks, designTimers,
                   designDone, paintRuns, fn>>

\* modules: [...structure.modules, {id: Date.now().toString(), ...}]
addModule(k) ==
    /\ k \in DOMAIN notes
    /\ StructureEditable(notes[k])
    /\ Len(notes[k].structure.modules) < MaxEditModules
    /\ notes' = updateNote(notes, notes[k].id,
                    [structure |-> [notes[k].structure EXCEPT
                                      !.modules = Append(@, [id |-> <<"new", 0>>,
                                                             src |-> 0])]])
    /\ UNCHANGED <<stage, chat, visualSettings, env, orgTasks, designTimers,
                   designDone, paintRuns, fn>>

\* structure.modules.filter((_, i) => i !== index)
RemoveAt(seq, index) ==
    [i \in 1..(Len(seq) - 1) |-> IF i < index THEN seq[i] ELSE seq[i + 1]]

\* onChange({...structure, modules: newModules}) -> updateNote(id, {structure})
deleteModule(k, index) ==
    /\ k \in DOMAIN notes
    /\ StructureEditable(notes[k])
    /\ index \in DOMAIN notes[k].structure.modules
    /\ notes' = updateNote(notes, notes[k].id,
                    [structure |-> [notes[k].structure EXCEPT
                                      !.modules = RemoveAt(@, index)]])
    /\ UNCHANGED <<stage, chat, visualSettings, env, orgTasks, designTimers,
                   designDone, paintRuns, fn>>

\* The pipeline with the editor in use, on splits of up to MaxEditNotes units
\* and with every image call answered by an image.
NextEdit ==
    \/ handleSplit
    \/ \E resp \in {r \in AppSplitResponses : Len(r.items) <= MaxEditNotes} :
          SplitResponse(resp)
    \/ handleConfirmSplit
    \/ \E k \in 1..MaxEditNotes, resp \in LeftResponses : OrganizeResponse(k, resp)
    \/ \E k \in 1..MaxEditNotes : handleTitleChange(k, "E")
    \/ \E k \in 1..MaxEditNotes, index \in 1..MaxModules : deleteModule(k, index)
    \/ handleBatchDesign
    \/ \E t \in designTimers : DesignTimer(t)
    \/ DesignDoneTimer
    \/ handleBatchPaint
    \/ \E r \in 1..MaxPaintRuns, k \in 1..MaxEditNotes :
          PaintResponse(r, k, GoodImageResponse)

SpecEdit == InitRepaint /\ [][NextEdit]_vars

\* The same with every control of the editor, on one unit per split whose
\* completion call answers with a usable outline.
NextEditAll ==
    \/ handleSplit
    \/ \E resp \in {r \in AppSplitResponses : Len(r.items) <= 1} :
          SplitResponse(resp)
    \/ handleConfirmSplit
    \/ OrganizeResponse(1, GoodLeftResponse)
    \/ handleTitleChange(1, "E")
    \/ handleSummaryChange(1, "E")
    \/ \E index \in 1..MaxEditModules : handleModuleChange(1, index, 9)
    \/ addModule(1)
    \/ \E index \in 1..MaxEditModules : deleteModule(1, index)
    \/ handleBatchDesign
    \/ \E t \in designTimers : DesignTimer(t)
    \/ DesignDoneTimer
    \/ handleBatchPaint
    \/ \E r \in 1..MaxPaintRuns : PaintResponse(r, 1, GoodImageResponse)

SpecEditAll == InitRepaint /\ [][NextEditAll]_vars

\* ---------------------------------------------------- updateNote by itself
\* Stores of up to MaxStore units, each as created or mid-phase, an id that
\* may be absent from the store, and the update objects the handlers pass.
StoreUnits(i) ==
    {[NewNote(i, AppInputText) EXCEPT !.isProcessing = p, !.error = e] :
        p \in BOOLEAN, e \in {NoError, "paint failed"}}

Stores ==
    UNION {{s \in [1..n -> UNION {StoreUnits(i) : i \in 1..MaxStore}] :
               \A i \in 1..n : s[i].id = i} : n \in 0..MaxStore}

UpdateObjects ==
    {[isProcessing |-> TRUE],
     [isProcessing |-> FALSE, error |-> "structure failed"],
     [structure |-> FallbackOutline, stage |-> StageReviewStructure,
      isProcessing |-> FALSE],
     [finalImage |-> "data:image", stage |-> StageDone, isProcessing |-> FALSE]}

InitUpdate ==
    /\ InitApp
    /\ env = [API_KEY |-> TRUE, GEMINI_API_KEY |-> FALSE, IMAGE_MODEL |-> "gemini"]
    /\ fn \in {[pc |-> "in", arr |-> [ns |-> s, id |-> i, updates |-> u],
                 out |-> <<>>] :
                s \in Stores, i \in 1..(MaxStore + 1), u \in UpdateObjects}

\* setNotes(prev => prev.map(...)) applied to prev
UpdateApply ==
    /\ fn.pc = "in"
    /\ fn' = [fn EXCEPT !.pc = "out",
                        !.out = updateNote(fn.arr.ns, fn.arr.id, fn.arr.updates)]
    /\ UNCHANGED <<stage, notes, chat, visualSettings, env, orgTasks,
                   designTimers, designDone, paintRuns>>

SpecUpdate == InitUpdate /\ [][UpdateApply]_vars

\* --------------------------------------------- processRightBrain by itself
\* Outlines whose title, summary and keywords are empty (or missing) or set
\* and whose modules are a list of up to MaxRightModules; settings with a
\* listed or an unlisted style, a palette and a watermark empty or set.
RightOutlines ==
    {[ParsedOutline(items) EXCEPT !.title = t, !.summary_context = c,
                                  !.visual_theme_keywords = w] :
        items \in ModuleLists(MaxRightModules, 1),
        t \in {"", "T"}, c \in {"", "S"}, w \in {"", "K"}}

RightSettings ==
    [styleId : {"healing", "zen", "unlisted"}, colorTheme : {"", "C"},
     watermark : {"", "W"}]

InitRight ==
    /\ InitApp
    /\ env = [API_KEY |-> TRUE, GEMINI_API_KEY |-> FALSE, IMAGE_MODEL |-> "gemini"]
    /\ fn \in {[pc |-> "in", arr |-> [data |-> d, settings |-> v], out |-> <<>>] :
                d \in RightOutlines, v \in RightSettings}

\* const prompt = processRightBrain(note.structure!, visualSettings)
RightApply ==
    /\ fn.pc = "in"
    /\ fn' = [fn EXCEPT !.pc = "out",
                        !.out = processRightBrain(fn.arr.data, fn.arr.settings)]
    /\ UNCHANGED <<stage, notes, chat, visualSettings, env, orgTasks,
                   designTimers, designDone, paintRuns>>

SpecRight == InitRight /\ [][RightApply]_vars

\* --------------------------------------------------- processHand by itself
\* One invocation under every model id, with or without API_KEY; fn.arr is
\* the invocation and fn.out the branch each of its attempts took.
InitHand ==
    /\ InitApp
    /\ env \in {[API_KEY |-> k, GEMINI_API_KEY |-> ~k, IMAGE_MODEL |-> m] :
                 k \in BOOLEAN, m \in ModelIds}
    /\ fn = [pc |-> "in", arr |-> IdleTask, out |-> <<>>]

\* processHand is called: the first loop iteration up to its await
HandBegin ==
    /\ fn.pc = "in"
    /\ fn' = [pc |-> "run", arr |-> BeginAttempt(IdleTask, 0), out |-> <<Backend>>]
    /\ UNCHANGED <<stage, notes, chat, visualSettings, env, orgTasks,
                   designTimers, designDone, paintRuns>>

\* the external call of the attempt completes with resp
HandResponse(resp) ==
    /\ fn.pc = "run"
    /\ fn.arr.pc = "call"
    /\ fn' = [fn EXCEPT !.arr = AttemptResponse(fn.arr, resp)]
    /\ UNCHANGED <<stage, notes, chat, visualSettings, env, orgTasks,
                   designTimers, designDone, paintRuns>>

\* the backoff timer fires: the next iteration up to its await, or the throw
HandBackoff ==
    /\ fn.pc = "run"
    /\ fn.arr.pc = "backoff"
    /\ LET t == BackoffElapsed(fn.arr) IN
       fn' = [fn EXCEPT !.arr = t,
                        !.out = IF t.pc = "threw" THEN @ ELSE Append(@, Backend)]
    /\ UNCHANGED <<stage, notes, chat, visualSettings, env, orgTasks,
                   designTimers, designDone, paintRuns>>

NextHand ==
    \/ HandBegin
    \/ \E resp \in ImageResponses : HandResponse(resp)
    \/ HandBackoff

SpecHand == InitHand /\ [][NextHand]_vars

\* ------------------------------------------- the imagen proxy (api handler)
\* fn.arr is the request (method, content-type header); fn.out holds the
\* responses sent on res, the requests made upstream, and what each awaited
\* step did: readBody (threw or not), fetch ("none", "rejected", "resolved"
\* with its status), upstream.arrayBuffer (threw or not).
UpstreamStatuses == {200, 400, 503}

ProxyIdle ==
    [sent |-> <<>>, upstream |-> <<>>, readThrew |-> FALSE, fetched |-> "none",
     status |-> 0, bufferThrew |-> FALSE]

\* process.env.GEMINI_API_KEY || process.env.API_KEY
ProxyKey == env.GEMINI_API_KEY \/ env.API_KEY

\* res.status(status).send(body)
Send(o, status, body) == [o EXCEPT !.sent = Append(@, [status |-> status, body |-> body])]

\* fetch(upstreamUrl, {method, headers: {'Content-Type': ...}, body})
Fetch(f, body) ==
    [f EXCEPT !.pc = "fetch",
              !.out.upstream = Append(@, [method |-> f.arr.method,
                                          contentType |->
                                              IF f.arr.contentType = "absent"
                                              THEN "application/json"
                                              ELSE f.arr.contentType,
                                          body |-> body])]

\* the catch block: res.status(500).send(e?.message || 'Proxy error')
ProxyCatch(f) == [f EXCEPT !.pc = "returned", !.out = Send(@, 500, "error message")]

\* (variant) the missing-key branch without its return
MissingKeyNoReturn(f) ==
    [f EXCEPT !.pc = "readBody", !.out = Send(@, 500, "Missing GEMINI_API_KEY/API_KEY")]

\* if (!key) { res.status(500).send(...); return; }
MissingKey(f) ==
    [f EXCEPT !.pc = "returned", !.out = Send(@, 500, "Missing GEMINI_API_KEY/API_KEY")]

InitProxy ==
    /\ InitApp
    /\ env \in [API_KEY : BOOLEAN, GEMINI_API_KEY : BOOLEAN, IMAGE_MODEL : {"imagen"}]
    /\ fn \in {[pc |-> "in", arr |-> [method |-> m, contentType |-> c],
                 out |-> ProxyIdle] :
                m \in {"GET", "HEAD", "POST"}, c \in {"absent", "text/plain"}}

\* handler is called: up to its first await that waits. readBody returns
\* undefined at once for GET and HEAD, and the fetch is made.
handler ==
    /\ fn.pc = "in"
    /\ fn' = IF ~ProxyKey THEN MissingKey(fn)
             ELSE IF fn.arr.method \in {"GET", "HEAD"} THEN Fetch(fn, "undefined")
             ELSE [fn EXCEPT !.pc = "readBody"]
    /\ UNCHANGED <<stage, notes, chat, visualSettings, env, orgTasks,
                   designTimers, designDone, paintRuns>>

\* readBody's loop over the request stream ends: with no chunk, with
\* chunks, or with the stream's error
readBody(outcome) ==
    /\ fn.pc = "readBody"
    /\ fn' = IF outcome = "throws"
             THEN ProxyCatch([fn EXCEPT !.out.readThrew = TRUE])
             ELSE Fetch(fn, IF outcome = "empty" THEN "undefined" ELSE "buffer")
    /\ UNCHANGED <<stage, notes, chat, visualSettings, env, orgTasks,
                   designTimers, designDone, paintRuns>>

\* the upstream fetch rejects
FetchRejected ==
    /\ fn.pc = "fetch"
    /\ fn' = ProxyCatch([fn EXCEPT !.out.fetched = "rejected"])
    /\ UNCHANGED <<stage, notes, chat, visualSettings, env, orgTasks,
                   designTimers, designDone, paintRuns>>

\* the upstream fetch resolves with a response of this status
FetchResolved(status) ==
    /\ fn.pc = "fetch"
    /\ fn' = [fn EXCEPT !.pc = "arrayBuffer", !.out.fetched = "resolved",
                        !.out.status = status]
    /\ UNCHANGED <<stage, notes, chat, visualSettings, env, orgTasks,
                   designTimers, designDone, paintRuns>>

\* upstream.arrayBuffer() settles; on success the headers are copied and
\* res.status(upstream.status).send(buffer) runs
ArrayBufferDone(threw) ==
    /\ fn.pc = "arrayBuffer"
    /\ fn' = IF threw THEN ProxyCatch([fn EXCEPT !.out.bufferThrew = TRUE])
             ELSE [fn EXCEPT !.pc = "returned",
                             !.out = Send(@, fn.out.status, "upstream body")]
    /\ UNCHANGED <<stage, notes, chat, visualSettings, env, orgTasks,
                   designTimers, designDone, paintRuns>>

NextProxy ==
    \/ handler
    \/ \E outcome \in {"empty", "chunks", "throws"} : readBody(outcome)
    \/ FetchRejected
    \/ \E status \in UpstreamStatuses : FetchResolved(status)
    \/ \E threw \in BOOLEAN : ArrayBufferDone(threw)

SpecProxy == InitProxy /\ [][NextProxy]_vars

\* ---------------------------------------------- processLeftBrain by itself
InitLeft ==
    /\ InitApp
    /\ env = [API_KEY |-> TRUE, GEMINI_API_KEY |-> FALSE, IMAGE_MODEL |-> "gemini"]
    /\ fn \in {[pc |-> "in", arr |-> r, out |-> <<>>] :
                r \in LeftResponsesOver(ModuleLists(MaxLeftModules, MaxModuleVals))}

\* const res = await processLeftBrain(ai, note.originalText)
LeftApply ==
    /\ fn.pc = "in"
    /\ fn' = [fn EXCEPT !.pc = "out", !.out = processLeftBrain(fn.arr)]
    /\ UNCHANGED <<stage, notes, chat, visualSettings, env, orgTasks,
                   designTimers, designDone, paintRuns>>

SpecLeft == InitLeft /\ [][LeftApply]_vars

\* --------------------------------------------- processSplitBrain by itself
SplitParts ==
    {Str(b, l, w) : b \in 1..MaxBodies, l \in {MinPartLength - 1, MinPartLength},
                    w \in 0..1}
    \cup {NotAString}

SplitLists == UNION {[1..n -> SplitParts] : n \in 0..MaxParts2}

\* inputText = rawText.trim(), not empty
InputTexts == {Str(0, l, 0) : l \in {MinPartLength - 1, MinPartLength}}

InitSplit ==
    /\ InitApp
    /\ env = [API_KEY |-> TRUE, GEMINI_API_KEY |-> FALSE, IMAGE_MODEL |-> "gemini"]
    /\ fn \in {[pc |-> "in", arr |-> [text |-> t, resp |-> r], out |-> <<>>] :
                t \in InputTexts, r \in SplitResponsesOver(SplitLists)}

\* const parts = await processSplitBrain(ai, inputText)
SplitApply ==
    /\ fn.pc = "in"
    /\ fn' = [fn EXCEPT !.pc = "out",
                        !.out = processSplitBrain(fn.arr.text, fn.arr.resp)]
    /\ UNCHANGED <<stage, notes, chat, visualSettings, env, orgTasks,
                   designTimers, designDone, paintRuns>>

SpecSplit == InitSplit /\ [][SplitApply]_vars


\* ================================================================ claims
Runs == DOMAIN paintRuns
Task(r, k) == paintRuns[r].task[k]
Units(r) == DOMAIN paintRuns[r].task
ChunkNo(k) == (k - 1) \div 3 + 1

\* C1: in every reachable state at most 3 units have an outstanding
\* processHand external call, however often handleBatchPaint is triggered
\* while its paint_confirmation control is present.
C1_AtMostThreeUnitsOutstanding ==
    Cardinality({k \in DOMAIN notes :
                    \E r \in Runs : Task(r, k).pc = "call"}) <= 3

\* C2: within one handleBatchPaint run no unit of a later chunk has started
\* its render (paintNote entered) unless every unit of each earlier chunk has
\* settled: painted, failed or skipped.
C2_ChunkBarrier ==
    \A r \in Runs : \A a \in Units(r), b \in Units(r) :
        (ChunkNo(a) < ChunkNo(b) /\ Task(r, b).pc # "idle")
            => Task(r, a).pc \in {"painted", "failed", "skipped"}

C2_Witness ==
    \E r \in Runs : \E a \in Units(r), b \in Units(r) :
        /\ ChunkNo(a) < ChunkNo(b)
        /\ Task(r, a).pc = "failed"
        /\ Task(r, b).pc = "call"

\* C3: chunk(arr, 3) of N >= 1 elements has ceil(N/3) chunks, each of 3
\* elements but the last, which has N - 3*(ceil(N/3) - 1); the chunks in
\* order concatenate to arr, so every element is in exactly one chunk.
RECURSIVE Flatten(_)
Flatten(ss) == IF ss = <<>> THEN <<>> ELSE Head(ss) \o Flatten(Tail(ss))

C3_ChunkPartition ==
    (fn.pc = "out" /\ Len(fn.arr) >= 1) =>
        LET N == Len(fn.arr)
            c == Len(fn.out)
        IN /\ 3 * (c - 1) < N /\ N <= 3 * c
           /\ \A i \in 1..(c - 1) : Len(fn.out[i]) = 3
           /\ Len(fn.out[c]) = N - 3 * (c - 1)
           /\ Flatten(fn.out) = fn.arr

C3_Witness ==
    /\ fn.pc = "out"
    /\ Len(fn.arr) = 7
    /\ Len(fn.out) = 3
    /\ Len(fn.out[1]) = 3 /\ Len(fn.out[2]) = 3 /\ Len(fn.out[3]) = 1

\* C4: one processHand invocation makes at most 3 attempts; attempt k+1
\* begins only out of the backoff that follows the failure of attempt k; a
\* success ends the invocation at once (no attempt follows it); the
\* invocation throws only after exactly 3 attempts.
C4_Inv ==
    \A r \in Runs : \A k \in Units(r) :
        LET t == Task(r, k) IN
        /\ t.attempts <= 3
        /\ t.pc = "call" => (t.attempts = t.i + 1 /\ Len(t.waits) = t.i)
        /\ t.pc = "failed" => t.attempts = 3

C4_Step ==
    \A r \in Runs : \A k \in Units(r) :
        LET t == Task(r, k)
            u == paintRuns'[r].task[k]
        IN /\ t.pc = "painted" => u = t
           /\ (u.pc = "painted" /\ t.pc # "painted") => t.pc = "call"
           /\ u.attempts > t.attempts =>
                 /\ u.attempts = t.attempts + 1
                 /\ t.pc \in {"idle", "backoff"}
           /\ (u.pc = "failed" /\ t.pc # "failed") =>
                 (t.pc = "backoff" /\ t.attempts = 3)

C4_AtMostThreeAttempts == []C4_Inv /\ [][C4_Step]_vars

C4_Witness ==
    \E r \in Runs : \E a \in Units(r), b \in Units(r) :
        /\ Task(r, a).pc = "failed" /\ Task(r, a).attempts = 3
        /\ Task(r, b).pc = "painted"

\* C5: when all 3 attempts of a processHand invocation failed, the waits it
\* made before throwing are exactly 1 s then 2 s, none after the last attempt.
C5_WaitsOneThenTwo ==
    \A r \in Runs : \A k \in Units(r) :
        Task(r, k).pc = "failed" => Task(r, k).waits = <<1, 2>>

\* C6: on either backend a response that completes without image data is
\* handled as a transport error is: the step taken on it is a step a
\* rejected call takes too, it ends in the backoff of the same attempt with
\* the store untouched, never in a returned image.
NoPayload(resp) ==
    resp.kind = "response" /\ \A i \in DOMAIN resp.parts : ~resp.parts[i]

TransportError == [kind |-> "error", parts |-> <<>>]

C6_Step ==
    \A r \in Runs : \A k \in Units(r) :
        \A resp \in {x \in ImageResponses : NoPayload(x)} :
            PaintResponse(r, k, resp) =>
                /\ PaintResponse(r, k, TransportError)
                /\ paintRuns'[r].task[k].pc = "backoff"
                /\ paintRuns'[r].task[k].waits = Append(Task(r, k).waits, Task(r, k).i + 1)
                /\ notes' = notes

C6_NoPayloadIsFailure == [][C6_Step]_vars

C6_Witness ==
    \E r \in Runs : \E k \in Units(r) :
        /\ ~IsGemini /\ env.API_KEY
        /\ Task(r, k).pc = "backoff"

\* C7: when a unit's render attempts are exhausted, processHand throws the
\* error of its third attempt, and the step that settles the unit leaves it
\* with isProcessing false and error set, writes no finalImage and does not
\* change its stage.
C7_Step ==
    \A r \in Runs : \A k \in Units(r) :
        (Task(r, k).pc # "failed" /\ paintRuns'[r].task[k].pc = "failed") =>
            /\ paintRuns'[r].task[k].thrown = 3
            /\ ~notes'[k].isProcessing
            /\ notes'[k].error # NoError
            /\ notes'[k].finalImage = notes[k].finalImage
            /\ notes'[k].stage = notes[k].stage

C7_ExhaustedRetries == [][C7_Step]_vars

C7_Witness ==
    \E r \in Runs : \E k \in Units(r) :
        /\ Task(r, k).pc = "failed"
        /\ ~notes[k].isProcessing
        /\ notes[k].error # NoError
        /\ notes[k].finalImage = NoImage
        /\ notes[k].stage # StageDone

\* C8: in a handleBatchOrganize wave the rejection of one unit's completion
\* call changes no sibling's record and settles no sibling's task, and a
\* sibling whose response is received after it still reaches
\* ReviewStructure with a structure and isProcessing false.
C8_Inv ==
    \A j \in DOMAIN orgTasks, k \in DOMAIN orgTasks :
        (orgTasks[j] = "rejected" /\ orgTasks[k] = "ok") =>
            /\ notes[k].stage = StageReviewStructure
            /\ HasStructure(notes[k])
            /\ ~notes[k].isProcessing

C8_Step ==
    \A j \in DOMAIN orgTasks :
        /\ OrganizeResponse(j, [kind |-> "error", modules |-> "absent", items |-> <<>>]) =>
              \A k \in DOMAIN orgTasks \ {j} :
                  /\ notes'[k] = notes[k]
                  /\ orgTasks[k] = "call" => orgTasks'[k] = "call"
        /\ \A resp \in {x \in LeftResponses : x.kind # "error"} :
              (OrganizeResponse(j, resp)
                  /\ \E k \in DOMAIN orgTasks : orgTasks[k] = "rejected") =>
                      /\ notes'[j].stage = StageReviewStructure
                      /\ HasStructure(notes'[j])
                      /\ ~notes'[j].isProcessing

C8_SiblingsUnaffected == []C8_Inv /\ [][C8_Step]_vars

C8_Witness ==
    \E j \in DOMAIN orgTasks, k \in DOMAIN orgTasks :
        /\ orgTasks[j] = "rejected" /\ orgTasks[k] = "ok"
        /\ notes[k].stage = StageReviewStructure
        /\ HasStructure(notes[k])

\* C9: a unit whose render failed after its retries does not abort the run:
\* the step that settles it leaves every unit of its chunk that is still in
\* flight as it was, and once a chunk has settled, failures included, the
\* next chunk has been started.
C9_Inv ==
    \A r \in Runs : \A b \in Units(r) :
        (ChunkNo(b) > 1
            /\ \A a \in Units(r) : ChunkNo(a) = ChunkNo(b) - 1 =>
                   Task(r, a).pc \in {"painted", "failed", "skipped"})
            => Task(r, b).pc # "idle"

C9_Step ==
    \A r \in Runs : \A k \in Units(r) :
        (Task(r, k).pc # "failed" /\ paintRuns'[r].task[k].pc = "failed") =>
            \A j \in Units(r) \ {k} :
                ChunkNo(j) = ChunkNo(k) => paintRuns'[r].task[j] = Task(r, j)

C9_FailureDoesNotAbort == []C9_Inv /\ [][C9_Step]_vars

C9_Witness ==
    \E r \in Runs : \E a \in Units(r), b \in Units(r) :
        /\ ChunkNo(a) < ChunkNo(b)
        /\ Task(r, a).pc = "failed"
        /\ Task(r, b).pc = "painted"

\* C10: once handleBatchOrganize has completed, every unit of the batch has
\* a structure, whatever each completion call produced.
OrganizeCompleted ==
    orgTasks # <<>> /\ \A k \in DOMAIN orgTasks : orgTasks[k] = "done"

C10_EveryUnitHasStructure ==
    OrganizeCompleted => \A k \in DOMAIN notes : HasStructure(notes[k])

C10_Witness ==
    /\ OrganizeCompleted
    /\ stage = StageReviewStructure
    /\ \E k \in DOMAIN notes : notes[k].structure = FallbackOutline
    /\ \E k \in DOMAIN notes : notes[k].structure.kind = "parsed"

\* C11: for a received response that does not parse as JSON or whose
\* modules are missing or empty, processLeftBrain returns the fallback
\* outline (the "parse failed" title and exactly one module); for a response
\* with a non-empty modules list it returns the parsed outline with as many
\* modules, in the list's order.
MalformedOrNoModules(resp) ==
    \/ resp.kind \in {"unparsable", "empty_text", "null", "number", "string", "array"}
    \/ resp.kind = "object" /\ resp.modules \in {"absent", "null"}
    \/ resp.kind = "object" /\ resp.modules = "list" /\ resp.items = <<>>

C11_FallbackOrParsed ==
    fn.pc = "out" =>
        /\ MalformedOrNoModules(fn.arr) =>
              /\ ~fn.out.threw
              /\ fn.out.value.title = "parse failed"
              /\ Len(fn.out.value.modules) = 1
        /\ (fn.arr.kind = "object" /\ fn.arr.modules = "list" /\ fn.arr.items # <<>>) =>
              /\ ~fn.out.threw
              /\ fn.out.value.title # "parse failed"
              /\ Len(fn.out.value.modules) = Len(fn.arr.items)
              /\ \A i \in DOMAIN fn.arr.items :
                    fn.out.value.modules[i].src = fn.arr.items[i]

C11_Witness ==
    /\ fn.pc = "out"
    /\ fn.arr.kind = "object" /\ fn.arr.modules = "list"
    /\ fn.arr.items = <<2, 1, 3>>
    /\ Len(fn.out.value.modules) = 3
    /\ fn.out.value.modules[1].src = 2

\* C12: when the completion call of a unit itself fails, the unit ends with
\* isProcessing false and error set and is not advanced to ReviewStructure;
\* when a response is received but malformed, the unit advances to
\* ReviewStructure with the fallback outline and no error.
C12_Step ==
    \A k \in DOMAIN orgTasks :
        /\ OrganizeResponse(k, [kind |-> "error", modules |-> "absent", items |-> <<>>]) =>
              /\ ~notes'[k].isProcessing
              /\ notes'[k].error # NoError
              /\ notes'[k].stage # StageReviewStructure
              /\ notes'[k].structure = NoStructure
        /\ \A resp \in {x \in LeftResponses : MalformedOrNoModules(x)} :
              OrganizeResponse(k, resp) =>
                  /\ ~notes'[k].isProcessing
                  /\ notes'[k].error = NoError
                  /\ notes'[k].stage = StageReviewStructure
                  /\ notes'[k].structure = FallbackOutline

C12_FailureKindsDiffer == [][C12_Step]_vars

\* C13: processSplitBrain always returns a list, and for a call that fails,
\* an unparsable response, a JSON value that is not a list, an empty list or
\* a list without any string of trimmed length >= 100 that list is exactly
\* <<input text>>.
NoUsablePart(resp) ==
    \/ resp.kind \in {"error", "unparsable", "nonlist", "empty_text"}
    \/ /\ resp.kind = "list"
       /\ \A i \in DOMAIN resp.items :
             ~(resp.items[i].kind = "str" /\ resp.items[i].len >= 100)

C13_TotalFallback ==
    (fn.pc = "out" /\ NoUsablePart(fn.arr.resp)) => fn.out = <<fn.arr.text>>

C13_Witness ==
    /\ fn.pc = "out"
    /\ fn.arr.resp.kind = "list"
    /\ Len(fn.arr.resp.items) = 3
    /\ \E i \in 1..3 : /\ fn.arr.resp.items[i].kind = "str"
                       /\ fn.arr.resp.items[i].len = 99
                       /\ fn.arr.resp.items[i].pad = 1
    /\ \E i \in 1..3 : fn.arr.resp.items[i].kind = "other"
    /\ fn.out = <<fn.arr.text>>

\* C14: for an input text shorter than 100 characters the output of
\* processSplitBrain is exactly the one segment equal to the input, whatever
\* the external call produced.
C14_ShortInputOneSegment ==
    (fn.pc = "out" /\ fn.arr.text.len < 100) => fn.out = <<fn.arr.text>>

\* C15: the output of processSplitBrain is a non-empty list; it is either
\* <<input text>> or a list of strings of trimmed length >= 100 that is the
\* external list with some elements left out, order kept.
RECURSIVE IsSubsequence(_, _)
IsSubsequence(a, b) ==
    IF a = <<>> THEN TRUE
    ELSE IF b = <<>> THEN FALSE
    ELSE IF Head(a) = Head(b) THEN IsSubsequence(Tail(a), Tail(b))
    ELSE IsSubsequence(a, Tail(b))

C15_SegmentsValid ==
    fn.pc = "out" =>
        /\ fn.out # <<>>
        /\ \/ fn.out = <<fn.arr.text>>
           \/ /\ \A i \in DOMAIN fn.out :
                    fn.out[i].kind = "str" /\ fn.out[i].len >= 100
              /\ fn.arr.resp.kind = "list"
              /\ IsSubsequence(fn.out, fn.arr.resp.items)

C15_Witness ==
    /\ fn.pc = "out"
    /\ Len(fn.arr.resp.items) = 3
    /\ fn.arr.resp.items[2].kind = "str" /\ fn.arr.resp.items[2].len = 99
    /\ fn.out = <<fn.arr.resp.items[1], fn.arr.resp.items[3]>>
    /\ fn.arr.resp.items[1] # fn.arr.resp.items[3]

\* C16: once handleSplit has created N units their order values are 1..N,
\* the unit of segment i having order i, and every later step keeps the
\* units and their order values as they are.
C16_Inv == \A k \in DOMAIN notes : notes[k].order = k

C16_Step ==
    /\ (notes = <<>> /\ notes' # <<>>) =>
          \E r \in AppSplitResponses :
              LET parts == processSplitBrain(AppInputText, r)
              IN /\ DOMAIN notes' = DOMAIN parts
                 /\ \A i \in DOMAIN parts :
                       /\ notes'[i].order = i
                       /\ notes'[i].originalText = parts[i]
    /\ notes # <<>> =>
          /\ DOMAIN notes' = DOMAIN notes
          /\ \A k \in DOMAIN notes : notes'[k].order = notes[k].order

C16_OrderDense == []C16_Inv /\ [][C16_Step]_vars

C16_Witness ==
    /\ Len(notes) = 4
    /\ stage = StageDone
    /\ \A k \in 1..4 : notes[k].order = k
    /\ \E k \in 1..4 : notes[k].error # NoError

\* C17: in every reachable state a unit that has a structure is at stage
\* ReviewStructure or a later stage of the pipeline.
C17_StructureImpliesStage ==
    \A k \in DOMAIN notes :
        HasStructure(notes[k]) =>
            notes[k].stage \in {StageReviewStructure, StageDesigning,
                                StageReviewPrompt, StagePainting, StageDone}

C17_Witness ==
    \E j \in DOMAIN notes, k \in DOMAIN notes :
        /\ notes[j].structure # NoStructure
        /\ notes[j].structure.title = "E"
        /\ notes[j].stage = StageReviewStructure
        /\ notes[k].structure = NoStructure
        /\ notes[k].stage = StageOrganizing

\* C18: in every reachable state, a unit with a generatedPrompt has a
\* structure and a unit with a finalImage has a generatedPrompt.
C18_FieldPresenceChain ==
    \A k \in DOMAIN notes :
        /\ notes[k].generatedPrompt # NoPrompt => notes[k].structure # NoStructure
        /\ notes[k].finalImage # NoImage => notes[k].generatedPrompt # NoPrompt

C18_Witness ==
    \E j \in DOMAIN notes, k \in DOMAIN notes :
        /\ notes[j].finalImage # NoImage
        /\ notes[j].generatedPrompt # NoPrompt
        /\ notes[j].structure.modules = <<>>
        /\ notes[k].generatedPrompt = NoPrompt
        /\ "paint_confirmation" \in chat

\* C19: in every reachable state a unit's isProcessing is true exactly when
\* an external call for the unit (its structuring call, or a render
\* invocation in an attempt or in its retry backoff) is outstanding.
ExternalCallOutstanding(k) ==
    \/ k \in DOMAIN orgTasks /\ orgTasks[k] = "call"
    \/ \E r \in Runs : Task(r, k).pc \in {"call", "backoff"}

C19_ProcessingIffCall ==
    \A k \in DOMAIN notes : notes[k].isProcessing <=> ExternalCallOutstanding(k)

\* C20: in every reachable state no unit has isProcessing true while its
\* stage is Done or while its error is set.
C20_NotProcessingWhenTerminal ==
    \A k \in DOMAIN notes :
        notes[k].isProcessing =>
            (notes[k].stage # StageDone /\ notes[k].error = NoError)

\* C21: a unit's error is cleared when its failed phase is run again, so a
\* unit that has reached Done with a finalImage has no error.
C21_Inv ==
    \A k \in DOMAIN notes :
        (notes[k].stage = StageDone /\ notes[k].finalImage # NoImage)
            => notes[k].error = NoError

C21_Step ==
    \A k \in DOMAIN notes :
        (/\ Len(paintRuns') = Len(paintRuns) + 1
         /\ paintRuns'[Len(paintRuns')].task[k].pc \in {"call", "backoff"}
         /\ notes[k].error # NoError)
            => notes'[k].error = NoError

C21_ErrorClearedOnRetry == [][C21_Step]_vars /\ []C21_Inv

\* C22: an edit of a unit's structure (title, summary, module text, add
\* module, delete module) is taken only while the unit's stage is
\* ReviewStructure; in any other stage no step changes an existing structure.
C22_Step ==
    \A k \in DOMAIN notes :
        /\ (notes[k].structure # NoStructure
               /\ notes'[k].structure # notes[k].structure)
              => notes[k].stage = StageReviewStructure
        /\ (\/ handleTitleChange(k, "E")
            \/ handleSummaryChange(k, "E")
            \/ addModule(k)
            \/ \E index \in 1..MaxEditModules :
                  handleModuleChange(k, index, 9) \/ deleteModule(k, index))
              => notes[k].stage = StageReviewStructure

C22_EditOnlyInReview == [][C22_Step]_vars

C22_Witness ==
    \E k \in DOMAIN notes :
        /\ notes[k].structure.title = "E"
        /\ notes[k].structure.summary_context = "E"
        /\ notes[k].stage = StageDone

\* C23: updateNote(id, updates) changes, on the unit whose id matches, the
\* fields named in updates and nothing else; every other unit, the number of
\* units and their order are unchanged; with an id not in the store nothing
\* changes.
C23_UpdateFrame ==
    fn.pc = "out" =>
        LET ns == fn.arr.ns
            upd == fn.arr.updates
        IN /\ Len(fn.out) = Len(ns)
           /\ \A k \in DOMAIN ns :
                 /\ fn.out[k].id = ns[k].id
                 /\ ns[k].id # fn.arr.id => fn.out[k] = ns[k]
                 /\ ns[k].id = fn.arr.id =>
                       \A f \in DOMAIN ns[k] :
                           fn.out[k][f] = IF f \in DOMAIN upd THEN upd[f]
                                          ELSE ns[k][f]
           /\ (\A k \in DOMAIN ns : ns[k].id # fn.arr.id) => fn.out = ns

C23_Witness ==
    /\ fn.pc = "out"
    /\ Len(fn.arr.ns) = 2
    /\ fn.arr.id = 2
    /\ fn.arr.ns[1].isProcessing /\ fn.arr.ns[2].isProcessing
    /\ fn.arr.updates = [finalImage |-> "data:image", stage |-> StageDone,
                         isProcessing |-> FALSE]
    /\ fn.out[2].finalImage = "data:image"
    /\ fn.out[1] = fn.arr.ns[1]

\* C24: updates applied by in-flight tasks and by user edits for different
\* units, in any interleaving, are all kept: what a unit has received (its
\* structure, an edited title, its prompt, its image) is still there after any
\* other update; the update of one completion call leaves every other unit as
\* it was; applying two outstanding completion results in either order gives
\* the same store; and every settled task's result is in the store.
C24_Inv ==
    /\ \A k \in DOMAIN orgTasks :
          orgTasks[k] # "call" => HasStructure(notes[k])
    /\ \A r \in Runs : \A k \in Units(r) :
          Task(r, k).pc = "painted" =>
              HasImage(notes[k]) /\ notes[k].stage = StageDone
    /\ \A j, k \in DOMAIN orgTasks :
          (j # k /\ orgTasks[j] = "call" /\ orgTasks[k] = "call") =>
              \A rj, rk \in LeftResponses :
                  processNoteStructure(
                      processNoteStructure(notes, notes[j].id, processLeftBrain(rj)),
                      notes[k].id, processLeftBrain(rk))
                  = processNoteStructure(
                      processNoteStructure(notes, notes[k].id, processLeftBrain(rk)),
                      notes[j].id, processLeftBrain(rj))

C24_Step ==
    \A k \in DOMAIN notes :
        /\ DOMAIN notes' = DOMAIN notes
        /\ HasStructure(notes[k]) => HasStructure(notes'[k])
        /\ notes[k].structure.title = "E" => notes'[k].structure.title = "E"
        /\ HasPrompt(notes[k]) => HasPrompt(notes'[k])
        /\ HasImage(notes[k]) => HasImage(notes'[k])
        /\ \A j \in DOMAIN orgTasks :
              (j # k /\ orgTasks[j] = "call" /\ orgTasks'[j] # "call")
                  => notes'[k] = notes[k]

C24_NoLostUpdate == [][C24_Step]_vars /\ []C24_Inv

\* unit 1 carries its edit, unit 2 the outline its call returned, and both
\* have their images
C24_Witness ==
    /\ Len(notes) = 2
    /\ notes[1].structure.title = "E"
    /\ notes[2].structure.title = "T"
    /\ notes[2].structure.kind = "parsed"
    /\ HasImage(notes[1]) /\ HasImage(notes[2])

\* C25: at any moment at most one phase task is in flight for a unit: its
\* completion call, its pending prompt timer and its render invocations
\* (in an attempt or in a backoff) never number two at once.
InFlight(k) ==
    (IF k \in DOMAIN orgTasks /\ orgTasks[k] = "call" THEN 1 ELSE 0)
    + Cardinality({t \in designTimers : t.id = notes[k].id})
    + Cardinality({r \in Runs : Task(r, k).pc \in {"call", "backoff"}})

C25_OneTaskPerUnit == \A k \in DOMAIN notes : InFlight(k) <= 1

\* C26: when the credential a phase needs is missing (no key at all for the
\* structuring phase and the gemini backend, no API_KEY for the imagen
\* backend), the phase is aborted before any unit's isProcessing becomes true
\* and before any call or retry: no structuring task and no render run
\* exists, and no render invocation has made an attempt.
C26_MissingCredentialAborts ==
    /\ ~checkApiKey =>
          /\ orgTasks = <<>> /\ paintRuns = <<>>
          /\ \A k \in DOMAIN notes : ~notes[k].isProcessing
    /\ (~IsGemini /\ ~env.API_KEY) =>
          \A r \in Runs : \A k \in Units(r) :
              Task(r, k).attempts = 0 /\ Task(r, k).pc = "idle"

\* C27: a unit's stage never moves backward in the stage order, along any
\* execution and under any interleaving of phase triggers, timers and
\* external responses (a second rendering run over a finished unit included).
C27_Step ==
    \A k \in DOMAIN notes :
        k \in DOMAIN notes' => notes'[k].stage >= notes[k].stage

C27_StageNeverBackward == [][C27_Step]_vars

\* a second run's invocation has failed for a unit that is Done
C27_Witness ==
    \E r \in Runs : \E k \in Units(r) :
        /\ r > 1
        /\ Task(r, k).pc = "failed"
        /\ notes[k].stage = StageDone
        /\ HasError(notes[k])

\* C28: entering the render call moves the unit to stage Painting with
\* isProcessing true, so whenever a unit's render call is outstanding its
\* stage is Painting; a returned call leaves it Done with its image and
\* isProcessing false.
C28_PaintingWhileRendering ==
    \A r \in Runs : \A k \in Units(r) :
        /\ Task(r, k).pc = "call" =>
              notes[k].stage = StagePainting /\ notes[k].isProcessing
        /\ (Task(r, k).pc = "painted" /\ Len(paintRuns) = 1) =>
              /\ notes[k].stage = StageDone
              /\ ~notes[k].isProcessing
              /\ HasImage(notes[k])

\* C29: the request to render is available only once prompt synthesis has
\* completed for every unit that has a structure: while the paint control is
\* shown every such unit has its generatedPrompt and a stage of ReviewPrompt
\* or later, and no rendering run has skipped a unit for lacking a prompt.
C29_PaintOnlyAfterPrompts ==
    /\ "paint_confirmation" \in chat =>
          \A k \in DOMAIN notes :
              HasStructure(notes[k]) =>
                  HasPrompt(notes[k]) /\ notes[k].stage >= StageReviewPrompt
    /\ \A r \in Runs : \A k \in Units(r) :
          HasStructure(notes[k]) => Task(r, k).pc # "skipped"

\* C30: processRightBrain returns an instruction string for every outline
\* and settings: the full template, never the error text, with "untitled"
\* for an empty title, "abstract concepts" for empty keywords, the default
\* palette for an empty colour theme, the first style for an unlisted style
\* id, an empty module list for no modules, and every other clause taken
\* from its input.
C30_TotalWithDefaults ==
    fn.pc = "out" =>
        LET d == fn.arr.data
            v == fn.arr.settings
            o == fn.out
        IN /\ Len(o) = 7
           /\ o[1] = IF v.styleId \in {STYLES[i] : i \in DOMAIN STYLES}
                     THEN v.styleId ELSE "healing"
           /\ o[2] = IF v.colorTheme = "" THEN "Pastel low-saturation colors"
                     ELSE v.colorTheme
           /\ o[3] = IF d.visual_theme_keywords = "" THEN "abstract concepts"
                     ELSE d.visual_theme_keywords
           /\ o[4] = IF d.title = "" THEN "untitled" ELSE d.title
           /\ o[5] = d.summary_context
           /\ Len(o[6]) = Len(d.modules)
           /\ \A i \in DOMAIN d.modules : o[6][i] = <<i, d.modules[i].src>>
           /\ o[7] = v.watermark

\* every default at once: empty title, keywords, palette, module list and
\* an unlisted style
C30_Witness ==
    /\ fn.pc = "out"
    /\ fn.arr.data.title = "" /\ fn.arr.data.visual_theme_keywords = ""
    /\ fn.arr.data.modules = <<>>
    /\ fn.arr.settings.styleId = "unlisted" /\ fn.arr.settings.colorTheme = ""
    /\ fn.out[1] = "healing" /\ fn.out[3] = "abstract concepts"
    /\ fn.out[4] = "untitled"

\* C31: for any outline and any two settings that differ only in watermark,
\* the two instruction strings of processRightBrain agree in every clause
\* except the trailing watermark clause, which is each one's watermark.
C31_WatermarkOnlyTrailing ==
    fn.pc = "out" /\ Len(fn.out) = 7 =>
        \A w \in {"", "W", "W2"} :
            LET o2 == processRightBrain(fn.arr.data,
                                        [fn.arr.settings EXCEPT !.watermark = w])
            IN /\ Len(o2) = Len(fn.out)
               /\ \A i \in 1..(Len(o2) - 1) : o2[i] = fn.out[i]
               /\ o2[Len(o2)] = w
               /\ fn.out[Len(fn.out)] = fn.arr.settings.watermark

\* a call with a watermark set, on an outline with an empty subtitle
C31_Witness ==
    /\ fn.pc = "out"
    /\ fn.arr.settings.watermark = "W"
    /\ fn.arr.data.summary_context = ""
    /\ fn.out[7] = "W"
    /\ fn.out[5] = ""

\* C32: on every attempt processHand takes its branch from the configured
\* model id alone: an id without 'gemini' in any letter case goes to the
\* prediction-list branch, an id with it to the inline-part branch, and the
\* branch is the same on every attempt of the invocation.
HasMarker(id) ==
    id \in {"", "gemini", "Gemini-3-Pro-Image", "GEMINI-FLASH-IMAGE"}

C32_BackendFromModelId ==
    fn.pc = "run" =>
        /\ Len(fn.out) = fn.arr.attempts
        /\ \A a \in DOMAIN fn.out :
              fn.out[a] = IF HasMarker(env.IMAGE_MODEL) THEN "inline" ELSE "predict"

\* a third attempt under an id that has the marker in capitals
C32_Witness ==
    /\ fn.pc = "run"
    /\ Len(fn.out) = maxRetries
    /\ env.IMAGE_MODEL = "GEMINI-FLASH-IMAGE"
    /\ fn.out[maxRetries] = "inline"

\* C33: a unit whose render phase failed (error set, no finalImage) is
\* retried alone: a step that re-enters the render phase for such a unit
\* starts no render invocation for a sibling that already has its image.
RenderStarted(k) ==
    /\ Len(paintRuns') = Len(paintRuns) + 1
    /\ paintRuns'[Len(paintRuns')].task[k].pc \in {"call", "backoff"}

C33_Step ==
    \A k \in DOMAIN notes :
        (HasError(notes[k]) /\ ~HasImage(notes[k]) /\ RenderStarted(k)) =>
            \A j \in DOMAIN notes :
                (j # k /\ HasImage(notes[j])) => ~RenderStarted(j)

C33_FailedUnitRetriedAlone == [][C33_Step]_vars

\* C34: when every external call returns or fails and every timer fires,
\* every unit reaches a stable stage: a structuring phase under way leads to
\* its completion point (style selection offered, batch stage
\* ReviewStructure) with no unit processing, and rendering under way leads to
\* every run having passed its completion point with no unit processing and
\* every invocation ended, after at most maxRetries attempts each.
Quiet == \A k \in DOMAIN notes : ~notes[k].isProcessing

PaintSettled ==
    /\ paintRuns # <<>>
    /\ \A r \in Runs : RunFinished(paintRuns[r])
    /\ \A r \in Runs : \A k \in Units(r) :
          /\ Task(r, k).pc \in {"painted", "failed", "skipped"}
          /\ Task(r, k).attempts <= maxRetries
    /\ "final_result" \in chat

C34_EveryUnitSettles ==
    /\ (\E k \in DOMAIN orgTasks : orgTasks[k] = "call")
          ~> (/\ \A k \in DOMAIN orgTasks : orgTasks[k] = "done"
              /\ stage = StageReviewStructure
              /\ "style_select" \in chat
              /\ Quiet)
    /\ (paintRuns # <<>>) ~> (PaintSettled /\ designTimers = {} /\ Quiet)

\* a run has ended in which an invocation gave up after maxRetries attempts
C34_Witness ==
    /\ PaintSettled /\ Quiet
    /\ \E r \in Runs : \E k \in Units(r) :
          Task(r, k).pc = "failed" /\ Task(r, k).attempts = maxRetries

\* C35: a unit's id and originalText never change after handleSplit created
\* the unit: no step of a phase task or of the editor changes them, and the
\* split card's textarea, the one control that writes originalText, is
\* disabled for every unit in every reachable state.
C35_Step ==
    \A k \in DOMAIN notes :
        /\ k \in DOMAIN notes'
        /\ notes'[k].id = notes[k].id
        /\ notes'[k].originalText = notes[k].originalText

C35_Inv == \A k \in DOMAIN notes : ~SplitTextEditable(notes[k])

C36_Step ==
    (orgTasks = <<>> /\ orgTasks' # <<>>) =>
        /\ DOMAIN orgTasks' = DOMAIN notes
        /\ \A k \in DOMAIN notes :
              orgTasks'[k] = "call" /\ notes'[k].isProcessing

C36_Inv ==
    /\ (\E k \in DOMAIN orgTasks : orgTasks[k] = "call") =>
          stage = StageBatchProcessing /\ "style_select" \notin chat
    /\ ("style_select" \in chat \/ stage = StageReviewStructure) =>
          /\ notes # <<>>
          /\ DOMAIN orgTasks = DOMAIN notes
          /\ \A k \in DOMAIN notes :
                orgTasks[k] = "done" /\ ~notes[k].isProcessing

C36_DispatchAllThenBarrier == [][C36_Step]_vars /\ []C36_Inv

\* more structuring calls outstanding at once than a rendering chunk holds
C36_Witness ==
    /\ Len(notes) > ChunkSize
    /\ DOMAIN orgTasks = DOMAIN notes
    /\ \A k \in DOMAIN notes : orgTasks[k] = "call" /\ notes[k].isProcessing

\* C37: whenever a unit is at stage ReviewPrompt or later, its
\* generatedPrompt is processRightBrain of the unit's current structure and
\* the settings in effect when design was confirmed.
C37_PromptMatchesStructure ==
    \A k \in DOMAIN notes :
        notes[k].stage >= StageReviewPrompt =>
            notes[k].generatedPrompt
                = processRightBrain(notes[k].structure, visualSettings)

\* C38: whenever the batch-level stage is Done, every unit of the batch has
\* settled its render phase: isProcessing is false and either finalImage is
\* present with unit stage Done, or error is set.
C38_BatchDoneMeansSettled ==
    stage = StageDone =>
        \A k \in DOMAIN notes :
            /\ ~notes[k].isProcessing
            /\ \/ HasImage(notes[k]) /\ notes[k].stage = StageDone
               \/ HasError(notes[k])

\* C39: the imagen proxy handler sends exactly one response per request:
\* none before it has returned and one after; without a configured key it
\* sends 500 and makes no upstream request; when the upstream request
\* completes and its body is read it sends the upstream status and body; when
\* reading the request body, the upstream request or reading its body throws
\* it sends 500.
C39_OneResponse ==
    LET o == fn.out IN
    /\ Len(o.sent) = IF fn.pc = "returned" THEN 1 ELSE 0
    /\ Len(o.upstream) <= 1
    /\ fn.pc = "returned" =>
          /\ (~env.GEMINI_API_KEY /\ ~env.API_KEY) =>
                o.sent[1].status = 500 /\ o.upstream = <<>>
          /\ (o.fetched = "resolved" /\ ~o.bufferThrew) =>
                o.sent[1] = [status |-> o.status, body |-> "upstream body"]
          /\ (o.readThrew \/ o.fetched = "rejected" \/ o.bufferThrew) =>
                o.sent[1].status = 500
          /\ o.readThrew => o.upstream = <<>>

\* a POST with a body whose upstream answered 503 has been relayed
C39_Witness ==
    /\ fn.pc = "returned"
    /\ fn.arr.method = "POST"
    /\ fn.out.sent = <<[status |-> 503, body |-> "upstream body"]>>
    /\ Len(fn.out.upstream) = 1
    /\ fn.out.upstream[1].body = "buffer"

====
